---- MODULE Spec2Model ----
(***************************************************************************)
(* State-machine model of the memo-management HTTP service                 *)
(* (src/app/app.js): metric registration at module load, the database      *)
(* initialisation with its 5-second retry, the 30-second gauge refresh,    *)
(* the request-duration middleware and the route handlers.                 *)
(*                                                                         *)
(* JavaScript runs every callback to completion, so one action is one      *)
(* callback (or one synchronous stretch of an async function between two   *)
(* awaits).  The database and the clock are the environment: the result    *)
(* of a query and the reading of Date.now() are inputs drawn with \E.      *)
(* Times are in milliseconds, as Date.now() gives them; a duration of d    *)
(* ms is the observed value d/1000 s, and a bucket boundary of b s is      *)
(* kept as 1000*b ms, so that  d/1000 <= b  is  d <= 1000*b.               *)
(***************************************************************************)
EXTENDS Integers, Sequences, FiniteSets, Bags, TLC

\* ------------------------------------------------------------------ bounds
MaxRequests == 2      \* requests accepted over the whole run
MaxInFlight == 2      \* requests being handled at the same time
MaxRefreshes == 2     \* executions of updateMemoMetrics started over the run
MaxClockSteps == 1    \* advances of the clock over the run
MaxObservations == 4  \* observations applied in the histogram specification
MaxRegisterCalls == 2 \* register calls made in the registry specification

\* ------------------------------------------------------- metric registry
\* A variant: dashboardViews is created under a name already taken.
BadRegistrations ==
  << [name |-> "process_cpu_user_seconds_total", kind |-> "counter",
      labelNames |-> <<>>],
     [name |-> "http_request_duration_seconds", kind |-> "histogram",
      labelNames |-> <<"method", "route", "status_code">>],
     [name |-> "db_connections_total", kind |-> "counter", labelNames |-> <<>>],
     [name |-> "memo_operations_total", kind |-> "counter",
      labelNames |-> <<"operation", "status">>],
     [name |-> "active_memos_count", kind |-> "gauge", labelNames |-> <<>>],
     [name |-> "memo_operations_total", kind |-> "counter",
      labelNames |-> <<"dashboard_type">>] >>

\* The descriptors in the order the module creates them.  The first stands
\* for the default process metrics collectDefaultMetrics registers.
Registrations ==
  << [name |-> "process_cpu_user_seconds_total", kind |-> "counter",
      labelNames |-> <<>>],
     [name |-> "http_request_duration_seconds", kind |-> "histogram",
      labelNames |-> <<"method", "route", "status_code">>],
     [name |-> "db_connections_total", kind |-> "counter", labelNames |-> <<>>],
     [name |-> "memo_operations_total", kind |-> "counter",
      labelNames |-> <<"operation", "status">>],
     [name |-> "active_memos_count", kind |-> "gauge", labelNames |-> <<>>],
     [name |-> "dashboard_views_total", kind |-> "counter",
      labelNames |-> <<"dashboard_type">>] >>

Names(reg) == {reg[i].name : i \in 1..Len(reg)}

\* register(descriptor): DuplicateNameError when the name is taken, and the
\* registry as it was; otherwise the descriptor is stored last.
register(reg, d) ==
  IF d.name \in Names(reg)
  THEN [error |-> "DuplicateNameError", reg |-> reg]
  ELSE [error |-> "none", reg |-> Append(reg, d)]

\* The registrations of module load, in order; the first failure throws out
\* of the module and nothing after it is registered.
RECURSIVE RegisterAll(_, _)
RegisterAll(reg, ds) ==
  IF ds = <<>> THEN [error |-> "none", reg |-> reg]
  ELSE LET r == register(reg, Head(ds))
       IN IF r.error # "none" THEN r ELSE RegisterAll(r.reg, Tail(ds))

ModuleLoad == RegisterAll(<<>>, Registrations)

\* ------------------------------------------------------------- histogram
\* Bucket boundaries in ms, ascending; the +Inf bucket is implicit.
SpecBuckets == <<1000, 5000, 10000>>

BucketChoices == {SpecBuckets, <<3000>>, <<500, 7000>>}

EmptySeries(bs) ==
  [counts |-> [i \in 1..Len(bs) |-> 0], inf |-> 0, sum |-> 0, count |-> 0]

\* A variant: a value equal to a boundary is left out of its bucket.
observeStrict(bs, s, v) ==
  [counts |-> [i \in 1..Len(bs) |-> s.counts[i] + (IF v < bs[i] THEN 1 ELSE 0)],
   inf |-> s.inf + 1, sum |-> s.sum + v, count |-> s.count + 1]

\* A variant: the buckets are updated, the sum and the count are not.
observeNoCount(bs, s, v) ==
  [counts |-> [i \in 1..Len(bs) |-> s.counts[i] + (IF v <= bs[i] THEN 1 ELSE 0)],
   inf |-> s.inf + 1, sum |-> s.sum, count |-> s.count]

\* observe(value): every bucket whose boundary is >= value, the +Inf bucket
\* and the count go up by one, and the value is added to the sum.
observe(bs, s, v) ==
  [counts |-> [i \in 1..Len(bs) |-> s.counts[i] + (IF v <= bs[i] THEN 1 ELSE 0)],
   inf |-> s.inf + 1, sum |-> s.sum + v, count |-> s.count + 1]

\* labels(...).observe(v) on the histogram: the series is created on first use.
SeriesOf(bs, hist, ls) == IF ls \in DOMAIN hist THEN hist[ls] ELSE EmptySeries(bs)

ObserveInto(bs, hist, ls, v) ==
  [k \in DOMAIN hist \cup {ls} |->
     IF k = ls THEN observe(bs, SeriesOf(bs, hist, ls), v) ELSE hist[k]]

\* labels(...).inc() on a counter with labels: created on first use.
IncLabelled(ctr, ls) ==
  [k \in DOMAIN ctr \cup {ls} |-> IF k \in DOMAIN ctr /\ k = ls THEN ctr[k] + 1
                                  ELSE IF k = ls THEN 1 ELSE ctr[k]]

ValueOf(ctr, ls) == IF ls \in DOMAIN ctr THEN ctr[ls] ELSE 0


\* ------------------------------------------------------------------ routes
Get(p) == [method |-> "GET", path |-> p]

Endpoints ==
  { Get("/health"), Get("/metrics"), Get("/"), Get("/admin/dashboard"),
    Get("/staff/dashboard"), Get("/api/memo-stats"), Get("/api/memos"),
    Get("/api/users/1/assignments"), Get("/api/users/2/assignments"),
    [method |-> "PUT", path |-> "/api/assignments/1/accept"],
    [method |-> "PUT", path |-> "/api/assignments/9/accept"],
    Get("/api/users/1/notifications"), Get("/nope") }

\* The pattern of the route express matches, "" when no route matches.
RouteOf(e) ==
  CASE e.method = "GET" /\ e.path \in {"/health", "/metrics", "/", "/admin/dashboard",
                                       "/staff/dashboard", "/api/memo-stats",
                                       "/api/memos"} -> e.path
    [] e.method = "GET" /\ e.path \in {"/api/users/1/assignments",
                                       "/api/users/2/assignments"}
         -> "/api/users/:userId/assignments"
    [] e.method = "PUT" /\ e.path \in {"/api/assignments/1/accept",
                                       "/api/assignments/9/accept"}
         -> "/api/assignments/:assignmentId/accept"
    [] e.method = "GET" /\ e.path = "/api/users/1/notifications"
         -> "/api/users/:userId/notifications"
    [] OTHER -> ""

\* The handlers that begin with dbConnectionsTotal.inc().
DbRoutes ==
  { "/api/memo-stats", "/api/memos", "/api/users/:userId/assignments",
    "/api/assignments/:assignmentId/accept", "/api/users/:userId/notifications" }

\* The operation label of the handlers that count memo operations.
OperationOf(route) ==
  CASE route = "/api/memo-stats" -> "get_stats"
    [] route = "/api/memos" -> "get_all"
    [] route = "/api/users/:userId/assignments" -> "get_assignments"
    [] route = "/api/assignments/:assignmentId/accept" -> "accept_memo"
    [] OTHER -> ""

\* -------------------------------------------------------------------- state
VARIABLES
  proc,                 \* "running" | "crashed": the Node process
  registry,             \* promClient.register: the descriptors, in order
  dbInit,               \* initializeDatabase: "connecting" | "retryWait" | "ready"
  retryTimers,          \* pending setTimeout(initializeDatabase, 5000) timers
  thenRan,              \* the .then callback of the first initializeDatabase() ran
  listening,            \* app.listen was called
  timerInstalled,       \* setInterval(updateMemoMetrics, 30000) was called
  inflight,             \* executions of updateMemoMetrics awaiting pool.execute
  nextSeq,              \* executions of updateMemoMetrics started so far
  activeMemos,          \* the gauge active_memos_count
  gaugeSrc,             \* history: the execution whose result the gauge holds
  lastOk,               \* history: the count the latest successful query returned
  lastOutcome,          \* history: "none" | "ok" | "error", the latest completed refresh
  reqs,                 \* the requests being handled
  nReq,                 \* requests accepted so far
  now,                  \* Date.now()
  clockSteps,           \* advances of the clock so far
  buckets,              \* the bucket boundaries of the histogram
  httpRequestDuration,  \* histogram series by <<method, route, status_code>>
  dbConnectionsTotal,   \* the counter db_connections_total
  memoOperationsTotal,  \* counter series by <<operation, status>>
  dashboardViews,       \* counter series by <<dashboard_type>>
  finalized,            \* history: bag of the responses whose 'finish' fired
  regResult,            \* registry specification: outcome of the last register call
  regArg,               \* registry specification: the descriptor of that call
  regCalls,             \* registry specification: register calls made
  memoAssignments       \* the table memo_assignments: the status of each row, by id

vars ==
  << proc, registry, dbInit, retryTimers, thenRan, listening, timerInstalled,
     inflight, nextSeq, activeMemos, gaugeSrc, lastOk, lastOutcome, reqs, nReq, now,
     clockSteps,
     buckets, httpRequestDuration, dbConnectionsTotal, memoOperationsTotal,
     dashboardViews, finalized, regResult, regArg, regCalls, memoAssignments >>

startupVars == << dbInit, retryTimers, thenRan, listening, timerInstalled >>
refreshVars == << inflight, nextSeq, activeMemos, gaugeSrc, lastOk, lastOutcome >>
clockVars == << now, clockSteps >>
counterVars == << dbConnectionsTotal, memoOperationsTotal, dashboardViews >>
regVars == << registry, regResult, regArg, regCalls >>

\* The rows of memo_assignments the schema script inserts, ids 1 to 4.
SeededAssignments ==
  (1 :> "pending") @@ (2 :> "accepted") @@ (3 :> "pending") @@ (4 :> "pending")

\* The state once the module has been loaded: the metrics are registered,
\* the routes are installed and the first initializeDatabase() has created
\* the pool and awaits pool.getConnection().
InitWith(bs) ==
  /\ proc = IF ModuleLoad.error = "none" THEN "running" ELSE "crashed"
  /\ registry = ModuleLoad.reg
  /\ dbInit = "connecting"
  /\ retryTimers = 0
  /\ thenRan = FALSE
  /\ listening = FALSE
  /\ timerInstalled = FALSE
  /\ inflight = {}
  /\ nextSeq = 0
  /\ activeMemos = 0
  /\ gaugeSrc = 0
  /\ lastOk = -1
  /\ lastOutcome = "none"
  /\ reqs = {}
  /\ nReq = 0
  /\ now = 0
  /\ clockSteps = 0
  /\ buckets = bs
  /\ httpRequestDuration = <<>>
  /\ dbConnectionsTotal = 0
  /\ memoOperationsTotal = <<>>
  /\ dashboardViews = <<>>
  /\ finalized = EmptyBag
  /\ regResult = "none"
  /\ regArg = <<>>
  /\ regCalls = 0
  /\ memoAssignments = SeededAssignments

Init == InitWith(SpecBuckets)


\* ---------------------------------------------------------- gauge refresh
\* The inputs of the environment.
MaxMemos == 1
MemoCounts == 0..MaxMemos   \* what SELECT COUNT(*) ... status = "sent" may return
ClockSteps == {4000}   \* by how much the clock may advance at once (ms)
CpuSamples == {10, 20}        \* readings of the process CPU time at a scrape

\* A write (inc, set or observe) makes every rendered body an old one.
Stale(rs) == {[r EXCEPT !.fresh = FALSE] : r \in rs}

\* A variant: the catch resets the gauge.
GaugeResetOnFailure(g, ok, count) == IF ok THEN count ELSE 0

\* updateMemoMetrics, after the await: the gauge is set on success and left
\* alone when pool.execute (or reading rows[0].count) throws.
GaugeAfter(g, ok, count) == IF ok THEN count ELSE g

\* updateMemoMetrics up to its await: pool.execute is called, whatever else
\* is in flight.
CanStartRefresh == nextSeq < MaxRefreshes

StartRefresh ==
  /\ nextSeq' = nextSeq + 1
  /\ inflight' = inflight \cup {nextSeq + 1}

\* The callback of setInterval(updateMemoMetrics, 30000).
Tick ==
  /\ proc = "running"
  /\ timerInstalled
  /\ CanStartRefresh
  /\ StartRefresh
  /\ UNCHANGED << proc, startupVars, activeMemos, gaugeSrc, lastOk, lastOutcome, reqs, nReq,
                  clockVars, buckets, httpRequestDuration, counterVars, finalized,
                  regVars, memoAssignments >>

RefreshSucceeds(s, c) ==
  /\ proc = "running"
  /\ s \in inflight
  /\ inflight' = inflight \ {s}
  /\ activeMemos' = GaugeAfter(activeMemos, TRUE, c)
  /\ gaugeSrc' = s
  /\ lastOk' = c
  /\ lastOutcome' = "ok"
  /\ reqs' = Stale(reqs)
  /\ UNCHANGED << proc, startupVars, nextSeq, nReq, clockVars, buckets,
                  httpRequestDuration, counterVars, finalized, regVars, memoAssignments >>

RefreshFails(s) ==
  /\ proc = "running"
  /\ s \in inflight
  /\ inflight' = inflight \ {s}
  /\ activeMemos' = GaugeAfter(activeMemos, FALSE, 0)
  /\ lastOutcome' = "error"
  /\ UNCHANGED << proc, startupVars, nextSeq, gaugeSrc, lastOk, reqs, nReq, clockVars,
                  buckets, httpRequestDuration, counterVars, finalized, regVars, memoAssignments >>

\* ------------------------------------------------------------------ startup
\* The .then callback of the first initializeDatabase(): it runs as soon as
\* that call's promise settles, and initializeDatabase catches every error,
\* so the promise is fulfilled after the first attempt whatever its outcome.
ThenCallback ==
  /\ thenRan' = TRUE
  /\ listening' = TRUE
  /\ timerInstalled' = TRUE

\* getConnection and ping answer: the gauge refresh is started.
DbConnectOk ==
  /\ proc = "running"
  /\ dbInit = "connecting"
  /\ CanStartRefresh
  /\ dbInit' = "ready"
  /\ StartRefresh
  /\ ThenCallback
  /\ UNCHANGED << proc, retryTimers, activeMemos, gaugeSrc, lastOk, lastOutcome, reqs, nReq,
                  clockVars, buckets, httpRequestDuration, counterVars, finalized,
                  regVars, memoAssignments >>

\* getConnection or ping throws: the retry is scheduled.
DbConnectFail ==
  /\ proc = "running"
  /\ dbInit = "connecting"
  /\ dbInit' = "retryWait"
  /\ retryTimers' = retryTimers + 1
  /\ ThenCallback
  /\ UNCHANGED << proc, refreshVars, reqs, nReq, clockVars, buckets,
                  httpRequestDuration, counterVars, finalized, regVars, memoAssignments >>

\* A variant: the retry is armed with a repeating timer, which stays pending
\* after it has fired.
RetryTimerRearmed ==
  /\ proc = "running"
  /\ retryTimers > 0
  /\ dbInit # "connecting"
  /\ retryTimers' = retryTimers
  /\ dbInit' = "connecting"
  /\ UNCHANGED << proc, thenRan, listening, timerInstalled, refreshVars, reqs, nReq,
                  clockVars, buckets, httpRequestDuration, counterVars, finalized,
                  regVars, memoAssignments >>

\* The callback of setTimeout(initializeDatabase, 5000).
RetryTimer ==
  /\ proc = "running"
  /\ retryTimers > 0
  /\ retryTimers' = retryTimers - 1
  /\ dbInit' = "connecting"
  /\ UNCHANGED << proc, thenRan, listening, timerInstalled, refreshVars, reqs, nReq,
                  clockVars, buckets, httpRequestDuration, counterVars, finalized,
                  regVars, memoAssignments >>

\* -------------------------------------------------------------------- clock
Advance(d) ==
  /\ proc = "running"
  /\ clockSteps < MaxClockSteps
  /\ clockSteps' = clockSteps + 1
  /\ now' = now + d
  /\ UNCHANGED << proc, startupVars, refreshVars, reqs, nReq, buckets,
                  httpRequestDuration, counterVars, finalized, regVars, memoAssignments >>


\* --------------------------------------------------------------- exposition
\* The lines of one histogram series: a line per bucket, the +Inf bucket,
\* the sum and the count.
HistLines(bs, ls, s) ==
  {[suffix |-> "_bucket", labels |-> ls, le |-> ToString(bs[i]), value |-> s.counts[i]]
     : i \in 1..Len(bs)}
  \cup {[suffix |-> "_bucket", labels |-> ls, le |-> "+Inf", value |-> s.inf],
        [suffix |-> "_sum", labels |-> ls, le |-> "", value |-> s.sum],
        [suffix |-> "_count", labels |-> ls, le |-> "", value |-> s.count]}

Line(ls, v) == [suffix |-> "", labels |-> ls, le |-> "", value |-> v]

\* The current values of the instruments, as a scrape reads them.  The
\* default process metrics are computed from the process at each scrape.
Samples(d, cpu, m) ==
  CASE d.name = "process_cpu_user_seconds_total" -> {Line(<<>>, cpu)}
    [] d.name = "http_request_duration_seconds" ->
         UNION {HistLines(m.bs, ls, m.hist[ls]) : ls \in DOMAIN m.hist}
    [] d.name = "db_connections_total" -> {Line(<<>>, m.db)}
    [] d.name = "memo_operations_total" -> {Line(ls, m.ops[ls]) : ls \in DOMAIN m.ops}
    [] d.name = "active_memos_count" -> {Line(<<>>, m.gauge)}
    [] d.name = "dashboard_views_total" -> {Line(ls, m.views[ls]) : ls \in DOMAIN m.views}
    [] OTHER -> {}

\* renderExposition(): per descriptor, in the order of the registry, its
\* HELP and TYPE lines (name and kind) and its sample lines.
RenderExposition(reg, cpu, m) ==
  [i \in 1..Len(reg) |->
     [name |-> reg[i].name, kind |-> reg[i].kind, samples |-> Samples(reg[i], cpu, m)]]

Metrics ==
  [bs |-> buckets, hist |-> httpRequestDuration, db |-> dbConnectionsTotal,
   ops |-> memoOperationsTotal, gauge |-> activeMemos, views |-> dashboardViews]

\* ---------------------------------------------------------------- requests
\* The middleware, then the handler up to its first await, run in one go.
CanAccept ==
  /\ proc = "running"
  /\ listening
  /\ nReq < MaxRequests
  /\ Cardinality(reqs) < MaxInFlight

\* The request as the middleware leaves it: start = Date.now().
NewReq(e, pc, status) ==
  [id |-> nReq + 1, method |-> e.method, path |-> e.path, route |-> RouteOf(e),
   pc |-> pc, start |-> now, status |-> status, body |-> <<>>, fresh |-> FALSE]

Accepts(r) ==
  /\ reqs' = reqs \cup {r}
  /\ nReq' = nReq + 1

AcceptsAfterWrite(r) ==
  /\ reqs' = Stale(reqs) \cup {r}
  /\ nReq' = nReq + 1

Becomes(r, r2) == reqs' = (reqs \ {r}) \cup {r2}

BecomesAfterWrite(r, r2) == reqs' = Stale(reqs \ {r}) \cup {r2}

\* GET /health
Health ==
  /\ CanAccept
  /\ Accepts(NewReq(Get("/health"), "sent", 200))
  /\ UNCHANGED << proc, startupVars, refreshVars, clockVars, buckets,
                  httpRequestDuration, counterVars, finalized, regVars, memoAssignments >>

\* GET /
Home ==
  /\ CanAccept
  /\ Accepts(NewReq(Get("/"), "sent", 200))
  /\ UNCHANGED << proc, startupVars, refreshVars, clockVars, buckets,
                  httpRequestDuration, counterVars, finalized, regVars, memoAssignments >>

\* A request no route matches: express answers 404.
NotFound ==
  /\ CanAccept
  /\ Accepts(NewReq(Get("/nope"), "sent", 404))
  /\ UNCHANGED << proc, startupVars, refreshVars, clockVars, buckets,
                  httpRequestDuration, counterVars, finalized, regVars, memoAssignments >>

DashboardPath(t) == IF t = "admin" THEN "/admin/dashboard" ELSE "/staff/dashboard"

\* GET /admin/dashboard and GET /staff/dashboard: the view is counted, then
\* rendered; a view that fails to render is answered 500.
Dashboard(t, status) ==
  /\ CanAccept
  /\ dashboardViews' = IncLabelled(dashboardViews, <<t>>)
  /\ AcceptsAfterWrite(NewReq(Get(DashboardPath(t)), "sent", status))
  /\ UNCHANGED << proc, startupVars, refreshVars, clockVars, buckets,
                  httpRequestDuration, dbConnectionsTotal, memoOperationsTotal,
                  finalized, regVars, memoAssignments >>

\* GET /metrics: promClient.register.metrics() is called ...
MetricsRequest ==
  /\ CanAccept
  /\ Accepts(NewReq(Get("/metrics"), "rendering", 200))
  /\ UNCHANGED << proc, startupVars, refreshVars, clockVars, buckets,
                  httpRequestDuration, counterVars, finalized, regVars, memoAssignments >>

\* A variant: the process reading leaks into the gauge's line.
ScrapeBodyStamped(reg, cpu, m) ==
  RenderExposition(reg, cpu, [m EXCEPT !.gauge = m.gauge + cpu])

\* ... and its promise gives the body that res.end sends.
ScrapeBody(reg, cpu, m) == RenderExposition(reg, cpu, m)

MetricsRendered(r, cpu) ==
  /\ proc = "running"
  /\ r \in reqs
  /\ r.pc = "rendering"
  /\ Becomes(r, [r EXCEPT !.pc = "sent", !.body = ScrapeBody(registry, cpu, Metrics),
                          !.fresh = TRUE])
  /\ UNCHANGED << proc, startupVars, refreshVars, nReq, clockVars, buckets,
                  httpRequestDuration, counterVars, finalized, regVars, memoAssignments >>


\* ------------------------------------------------- database-backed handlers
\* A variant: the notifications handler does not count its connection.
IncExceptNotifications(c, route) ==
  IF route \in DbRoutes \ {"/api/users/:userId/notifications"} THEN c + 1 ELSE c

\* dbConnectionsTotal.inc(), the first statement of each of them.
IncOnEntry(c, route) == IF route \in DbRoutes THEN c + 1 ELSE c

\* A variant: the catch of a handler does not count the error.
CountExceptError(route, status) ==
  memoOperationsTotal' =
    IF status = "error" THEN memoOperationsTotal
    ELSE IncLabelled(memoOperationsTotal, <<OperationOf(route), status>>)

\* memoOperationsTotal.labels(op, status).inc()
CountOperation(route, status) ==
  memoOperationsTotal' = IncLabelled(memoOperationsTotal, <<OperationOf(route), status>>)

\* The prologue of an instrumented handler, up to its first pool.execute.
EntersDb(e) ==
  /\ CanAccept
  /\ dbConnectionsTotal' = IncOnEntry(dbConnectionsTotal, RouteOf(e))
  /\ CountOperation(RouteOf(e), "attempt")
  /\ AcceptsAfterWrite(NewReq(e, "q1", 0))
  /\ UNCHANGED << proc, startupVars, refreshVars, clockVars, buckets,
                  httpRequestDuration, dashboardViews, finalized, regVars, memoAssignments >>

\* The end of a handler: the outcome is counted and the response is sent.
Answers(r, outcome, status) ==
  /\ proc = "running"
  /\ CountOperation(r.route, outcome)
  /\ BecomesAfterWrite(r, [r EXCEPT !.pc = "sent", !.status = status])
  /\ UNCHANGED << proc, startupVars, nReq, clockVars, buckets, httpRequestDuration,
                  dbConnectionsTotal, dashboardViews, finalized, regVars >>

Awaiting(r, route, pc) == r \in reqs /\ r.route = route /\ r.pc = pc

\* GET /api/memo-stats: three queries, one after the other.
MemoStats == EntersDb(Get("/api/memo-stats"))

MemoStatsNextQuery(r) ==
  /\ proc = "running"
  /\ \/ Awaiting(r, "/api/memo-stats", "q1") /\ Becomes(r, [r EXCEPT !.pc = "q2"])
     \/ Awaiting(r, "/api/memo-stats", "q2") /\ Becomes(r, [r EXCEPT !.pc = "q3"])
  /\ UNCHANGED << proc, startupVars, refreshVars, nReq, clockVars, buckets,
                  httpRequestDuration, counterVars, finalized, regVars, memoAssignments >>

MemoStatsDone(r) ==
  /\ Awaiting(r, "/api/memo-stats", "q3")
  /\ Answers(r, "success", 200)
  /\ UNCHANGED << refreshVars, memoAssignments >>

MemoStatsError(r) ==
  /\ r \in reqs /\ r.route = "/api/memo-stats" /\ r.pc \in {"q1", "q2", "q3"}
  /\ Answers(r, "error", 500)
  /\ UNCHANGED << refreshVars, memoAssignments >>

\* GET /api/memos
Memos == EntersDb(Get("/api/memos"))

MemosDone(r) ==
  /\ Awaiting(r, "/api/memos", "q1")
  /\ Answers(r, "success", 200)
  /\ UNCHANGED << refreshVars, memoAssignments >>

MemosError(r) ==
  /\ Awaiting(r, "/api/memos", "q1")
  /\ Answers(r, "error", 500)
  /\ UNCHANGED << refreshVars, memoAssignments >>

\* GET /api/users/:userId/assignments
Assignments(userId) ==
  EntersDb(Get(IF userId = 1 THEN "/api/users/1/assignments"
                             ELSE "/api/users/2/assignments"))

AssignmentsDone(r) ==
  /\ Awaiting(r, "/api/users/:userId/assignments", "q1")
  /\ Answers(r, "success", 200)
  /\ UNCHANGED << refreshVars, memoAssignments >>

AssignmentsError(r) ==
  /\ Awaiting(r, "/api/users/:userId/assignments", "q1")
  /\ Answers(r, "error", 500)
  /\ UNCHANGED << refreshVars, memoAssignments >>

\* PUT /api/assignments/:assignmentId/accept
AcceptPath(id) ==
  IF id = 1 THEN "/api/assignments/1/accept" ELSE "/api/assignments/9/accept"

\* req.params.assignmentId
AssignmentIdOf(r) == IF r.path = "/api/assignments/1/accept" THEN 1 ELSE 9

AcceptMemo(id) == EntersDb([method |-> "PUT", path |-> AcceptPath(id)])

\* A variant: the UPDATE has no WHERE clause.
UpdateEveryRow(table, id) ==
  [rows |-> [k \in DOMAIN table |-> "accepted"],
   affectedRows |-> Cardinality(DOMAIN table)]

\* UPDATE memo_assignments SET status = 'accepted', accepted_at = NOW()
\* WHERE id = ?: the row with that id, if there is one, and the number of
\* rows the statement matched.
UpdateAccepted(table, id) ==
  [rows |-> [k \in DOMAIN table |-> IF k = id THEN "accepted" ELSE table[k]],
   affectedRows |-> IF id \in DOMAIN table THEN 1 ELSE 0]

\* The UPDATE changed a row: 200, and updateMemoMetrics() is called.
AcceptDone(r) ==
  /\ Awaiting(r, "/api/assignments/:assignmentId/accept", "q1")
  /\ CanStartRefresh
  /\ UpdateAccepted(memoAssignments, AssignmentIdOf(r)).affectedRows > 0
  /\ memoAssignments' = UpdateAccepted(memoAssignments, AssignmentIdOf(r)).rows
  /\ Answers(r, "success", 200)
  /\ StartRefresh
  /\ UNCHANGED << activeMemos, gaugeSrc, lastOk, lastOutcome >>

\* The UPDATE changed no row: 404.
AcceptNotFound(r) ==
  /\ Awaiting(r, "/api/assignments/:assignmentId/accept", "q1")
  /\ ~(UpdateAccepted(memoAssignments, AssignmentIdOf(r)).affectedRows > 0)
  /\ memoAssignments' = UpdateAccepted(memoAssignments, AssignmentIdOf(r)).rows
  /\ Answers(r, "not_found", 404)
  /\ UNCHANGED refreshVars

\* pool.execute throws, before the server has run the statement (applied
\* is FALSE) or after it has and the answer was lost (applied is TRUE).
AcceptError(r, applied) ==
  /\ Awaiting(r, "/api/assignments/:assignmentId/accept", "q1")
  /\ memoAssignments' =
       IF applied THEN UpdateAccepted(memoAssignments, AssignmentIdOf(r)).rows
       ELSE memoAssignments
  /\ Answers(r, "error", 500)
  /\ UNCHANGED refreshVars

\* GET /api/users/:userId/notifications: no operation is counted.
Notifications ==
  /\ CanAccept
  /\ dbConnectionsTotal' =
       IncOnEntry(dbConnectionsTotal, "/api/users/:userId/notifications")
  /\ AcceptsAfterWrite(NewReq(Get("/api/users/1/notifications"), "q1", 0))
  /\ UNCHANGED << proc, startupVars, refreshVars, clockVars, buckets,
                  httpRequestDuration, memoOperationsTotal, dashboardViews, finalized,
                  regVars, memoAssignments >>

NotificationsReply(r, status) ==
  /\ proc = "running"
  /\ Awaiting(r, "/api/users/:userId/notifications", "q1")
  /\ Becomes(r, [r EXCEPT !.pc = "sent", !.status = status])
  /\ UNCHANGED << proc, startupVars, refreshVars, nReq, clockVars, buckets,
                  httpRequestDuration, counterVars, finalized, regVars, memoAssignments >>

\* --------------------------------------------------- the 'finish' listener
\* duration = (end - start) / 1000, kept in ms.
Duration(start, end) == end - start

\* A variant: the label is always the raw request path.
RouteLabelRaw(r) == r.path

\* req.route?.path || req.path
RouteLabel(r) == IF r.route # "" THEN r.route ELSE r.path

LabelsOf(r) == << r.method, RouteLabel(r), r.status >>

\* A variant: only responses below 400 are observed.
ObserveSuccessOnly(bs, hist, r, end) ==
  IF r.status >= 400 THEN hist
  ELSE ObserveInto(bs, hist, LabelsOf(r), Duration(r.start, end))

\* A variant: the observation stops after the buckets.
ObserveBucketsOnly(bs, hist, r, end) ==
  LET ls == LabelsOf(r)
  IN [k \in DOMAIN hist \cup {ls} |->
        IF k = ls THEN observeNoCount(bs, SeriesOf(bs, hist, ls), Duration(r.start, end))
        ELSE hist[k]]

\* httpRequestDuration.labels(method, route, status_code).observe(duration)
ObserveRequest(bs, hist, r, end) ==
  ObserveInto(bs, hist, LabelsOf(r), Duration(r.start, end))

\* What the history keeps of a response whose 'finish' event fired.
Finalized(r, end) ==
  [labels |-> LabelsOf(r), elapsed |-> end - r.start, path |-> r.path]

Finish(r) ==
  /\ proc = "running"
  /\ r \in reqs
  /\ r.pc = "sent"
  /\ httpRequestDuration' = ObserveRequest(buckets, httpRequestDuration, r, now)
  /\ finalized' = finalized (+) SetToBag({Finalized(r, now)})
  /\ reqs' = Stale(reqs \ {r})
  /\ UNCHANGED << proc, startupVars, refreshVars, nReq, clockVars, buckets, counterVars,
                  regVars, memoAssignments >>

\* -------------------------------------------------------------- the program
Next ==
  \/ DbConnectOk
  \/ DbConnectFail
  \/ RetryTimer
  \/ Tick
  \/ \E s \in inflight : \E c \in MemoCounts : RefreshSucceeds(s, c)
  \/ \E s \in inflight : RefreshFails(s)
  \/ \E d \in ClockSteps : Advance(d)
  \/ Health
  \/ Home
  \/ NotFound
  \/ \E t \in {"admin", "staff"} : \E st \in {200, 500} : Dashboard(t, st)
  \/ MetricsRequest
  \/ \E r \in reqs : \E cpu \in CpuSamples : MetricsRendered(r, cpu)
  \/ MemoStats
  \/ \E r \in reqs : MemoStatsNextQuery(r)
  \/ \E r \in reqs : MemoStatsDone(r)
  \/ \E r \in reqs : MemoStatsError(r)
  \/ Memos
  \/ \E r \in reqs : MemosDone(r)
  \/ \E r \in reqs : MemosError(r)
  \/ \E u \in {1, 2} : Assignments(u)
  \/ \E r \in reqs : AssignmentsDone(r)
  \/ \E r \in reqs : AssignmentsError(r)
  \/ \E id \in {1, 9} : AcceptMemo(id)
  \/ \E r \in reqs : AcceptDone(r)
  \/ \E r \in reqs : AcceptNotFound(r)
  \/ \E r \in reqs : \E applied \in BOOLEAN : AcceptError(r, applied)
  \/ Notifications
  \/ \E r \in reqs : \E st \in {200, 500} : NotificationsReply(r, st)
  \/ \E r \in reqs : Finish(r)

Spec == Init /\ [][Next]_vars


\* The same program with the environment restricted to the triggers of the
\* gauge refresh: the startup, the timer and PUT .../accept requests.
NextRefresh ==
  \/ DbConnectOk
  \/ DbConnectFail
  \/ RetryTimer
  \/ Tick
  \/ \E s \in inflight : \E c \in MemoCounts : RefreshSucceeds(s, c)
  \/ \E s \in inflight : RefreshFails(s)
  \/ \E id \in {1, 9} : AcceptMemo(id)
  \/ \E r \in reqs : AcceptDone(r)
  \/ \E r \in reqs : AcceptNotFound(r)
  \/ \E r \in reqs : \E applied \in BOOLEAN : AcceptError(r, applied)
  \/ \E r \in reqs : Finish(r)

SpecRefresh == Init /\ [][NextRefresh]_vars

\* The same program serving requests within one reading of the clock, while
\* no timer fires, once the first connection test has succeeded.
NextServe ==
  \/ DbConnectOk
  \/ Health
  \/ Home
  \/ NotFound
  \/ \E t \in {"admin", "staff"} : \E st \in {200, 500} : Dashboard(t, st)
  \/ MetricsRequest
  \/ \E r \in reqs : \E cpu \in CpuSamples : MetricsRendered(r, cpu)
  \/ MemoStats
  \/ \E r \in reqs : MemoStatsNextQuery(r)
  \/ \E r \in reqs : MemoStatsDone(r)
  \/ \E r \in reqs : MemoStatsError(r)
  \/ Memos
  \/ \E r \in reqs : MemosDone(r)
  \/ \E r \in reqs : MemosError(r)
  \/ \E u \in {1, 2} : Assignments(u)
  \/ \E r \in reqs : AssignmentsDone(r)
  \/ \E r \in reqs : AssignmentsError(r)
  \/ \E id \in {1, 9} : AcceptMemo(id)
  \/ \E r \in reqs : AcceptDone(r)
  \/ \E r \in reqs : AcceptNotFound(r)
  \/ \E r \in reqs : \E applied \in BOOLEAN : AcceptError(r, applied)
  \/ Notifications
  \/ \E r \in reqs : \E st \in {200, 500} : NotificationsReply(r, st)
  \/ \E r \in reqs : Finish(r)

SpecServe == Init /\ [][NextServe]_vars

\* The same program scraped while it serves /health and /api/memos and
\* refreshes the gauge.
NextScrape ==
  \/ DbConnectOk
  \/ DbConnectFail
  \/ \E s \in inflight : \E c \in MemoCounts : RefreshSucceeds(s, c)
  \/ \E d \in ClockSteps : Advance(d)
  \/ Health
  \/ MetricsRequest
  \/ \E r \in reqs : \E cpu \in CpuSamples : MetricsRendered(r, cpu)
  \/ Memos
  \/ \E r \in reqs : MemosDone(r)
  \/ \E r \in reqs : MemosError(r)
  \/ \E r \in reqs : Finish(r)

SpecScrape == Init /\ [][NextScrape]_vars


\* The same program from its start: the connection attempts and their retry,
\* the first refresh, and /health and notification requests meanwhile.
NextStartup ==
  \/ DbConnectOk
  \/ DbConnectFail
  \/ RetryTimer
  \/ \E s \in inflight : \E c \in MemoCounts : RefreshSucceeds(s, c)
  \/ \E s \in inflight : RefreshFails(s)
  \/ \E d \in ClockSteps : Advance(d)
  \/ Health
  \/ Notifications
  \/ \E r \in reqs : \E st \in {200, 500} : NotificationsReply(r, st)
  \/ \E r \in reqs : Finish(r)

\* The event loop runs the callback of a timer that is due, and the driver
\* settles every getConnection and ping, with an answer or with an error.
SpecStartup ==
  /\ Init
  /\ [][NextStartup]_vars
  /\ WF_vars(RetryTimer)
  /\ WF_vars(DbConnectOk \/ DbConnectFail)

\* ------------------------------------------------- failing metric operations
\* labels(...) or observe(...) throws inside the 'finish' listener.  The
\* listener has no try/catch, so the error leaves res.emit('finish') as an
\* uncaught exception, which ends the process; nothing is observed.
FinishThrows(r) ==
  /\ proc = "running"
  /\ r \in reqs
  /\ r.pc = "sent"
  /\ proc' = "crashed"
  /\ UNCHANGED << startupVars, refreshVars, reqs, nReq, clockVars, buckets,
                  httpRequestDuration, counterVars, finalized, regVars, memoAssignments >>

\* The scraped program, with metric operations that may throw.
NextFault ==
  \/ NextScrape
  \/ \E r \in reqs : FinishThrows(r)

SpecFault == Init /\ [][NextFault]_vars

\* ------------------------------------------------ the histogram on its own
\* Responses finish with start and end times drawn from small sets, on a
\* histogram whose boundaries are drawn from BucketChoices.
Starts == {0, 250}
Elapsed == {500, 1000, 3000, 7000, 20000}
Finishing ==
  { [id |-> 0, method |-> "GET", path |-> "/health", route |-> "/health",
     pc |-> "sent", start |-> t, status |-> 200, body |-> <<>>, fresh |-> FALSE]
      : t \in Starts }
  \cup
  { [id |-> 0, method |-> "GET", path |-> "/api/memos", route |-> "/api/memos",
     pc |-> "sent", start |-> t, status |-> 500, body |-> <<>>, fresh |-> FALSE]
      : t \in Starts }

InitHist == \E bs \in BucketChoices : InitWith(bs)

HistObserve(r, end) ==
  /\ BagCardinality(finalized) < MaxObservations
  /\ httpRequestDuration' = ObserveRequest(buckets, httpRequestDuration, r, end)
  /\ finalized' = finalized (+) SetToBag({Finalized(r, end)})
  /\ UNCHANGED << proc, startupVars, refreshVars, reqs, nReq, clockVars, buckets,
                  counterVars, regVars, memoAssignments >>

NextHist == \E r \in Finishing : \E e \in Elapsed : HistObserve(r, r.start + e)

SpecHist == InitHist /\ [][NextHist]_vars

\* ------------------------------------------------- the registry on its own
\* register calls with descriptors drawn from a small set, names taken and
\* free, while the program serves notification requests.
Candidates ==
  { [name |-> n, kind |-> k, labelNames |-> <<>>]
      : n \in {"db_connections_total", "active_memos_count", "queue_depth",
               "jobs_total"},
        k \in {"counter", "gauge"} }

RegisterCall(d) ==
  /\ proc = "running"
  /\ regCalls < MaxRegisterCalls
  /\ regCalls' = regCalls + 1
  /\ regArg' = d
  /\ regResult' = register(registry, d).error
  /\ registry' = register(registry, d).reg
  /\ UNCHANGED << proc, startupVars, refreshVars, reqs, nReq, clockVars, buckets,
                  httpRequestDuration, counterVars, finalized, memoAssignments >>

NextRegistry ==
  \/ DbConnectOk
  \/ DbConnectFail
  \/ Notifications
  \/ \E r \in reqs : \E st \in {200, 500} : NotificationsReply(r, st)
  \/ \E r \in reqs : Finish(r)
  \/ \E d \in Candidates : RegisterCall(d)

SpecRegistry == Init /\ [][NextRegistry]_vars


\* ============================================================== properties
\* What the history holds, counted.
RECURSIVE CopiesOf(_, _)
CopiesOf(B, S) ==
  IF S = {} THEN 0
  ELSE LET x == CHOOSE y \in S : TRUE
       IN CopiesIn(x, B) + CopiesOf(B, S \ {x})

RECURSIVE ElapsedOf(_, _)
ElapsedOf(B, S) ==
  IF S = {} THEN 0
  ELSE LET x == CHOOSE y \in S : TRUE
       IN CopiesIn(x, B) * x.elapsed + ElapsedOf(B, S \ {x})

RECURSIVE CountsOf(_, _)
CountsOf(hist, S) ==
  IF S = {} THEN 0
  ELSE LET k == CHOOSE y \in S : TRUE
       IN hist[k].count + CountsOf(hist, S \ {k})

\* The finalized responses of one series.
Observed(ls) == {x \in BagToSet(finalized) : x.labels = ls}

\* The /metrics requests whose body has been rendered.
Rendered == {r \in reqs : r.route = "/metrics" /\ r.pc = "sent"}

\* C1: at most one execution of updateMemoMetrics is in flight, whatever
\* triggers fire (the timer, the startup call, the call after an accept).
C1_SingleFlight == Cardinality(inflight) <= 1

\* C2: a failed refresh leaves the gauge as the last successful refresh set
\* it and neither uninstalls the timer nor ends the process; the gauge always
\* holds the count the latest successful refresh returned (0, the initial
\* value of the gauge, before the first one).
C2_StaleButAvailable ==
  /\ [](activeMemos = IF lastOk = -1 THEN 0 ELSE lastOk)
  /\ [][/\ (lastOutcome' = "error" /\ inflight' # inflight) => activeMemos' = activeMemos
        /\ timerInstalled => (timerInstalled' /\ proc' = "running")]_vars

\* C2 witness: the latest refresh failed after an earlier one had set the
\* gauge to 1, and the gauge still holds 1 with the timer installed.
C2_Witness ==
  /\ lastOutcome = "error"
  /\ lastOk = 1
  /\ activeMemos = 1
  /\ timerInstalled

\* C3: no failure of a metric operation in the 'finish' listener ends the
\* process or reaches the request: the process keeps running.
C3_HookNeverCrashes == proc = "running"

\* C4: one observation per finalized response, under its label set, and
\* none before: the counts of the histogram, in total and per series, are
\* the numbers of finalized responses, and the start time of a request being
\* handled was read before the handler ran.
C4_OneObservationPerResponse ==
  /\ CountsOf(httpRequestDuration, DOMAIN httpRequestDuration) = BagCardinality(finalized)
  /\ \A x \in BagToSet(finalized) : x.labels \in DOMAIN httpRequestDuration
  /\ \A ls \in DOMAIN httpRequestDuration :
       httpRequestDuration[ls].count = CopiesOf(finalized, Observed(ls))
  /\ \A r \in reqs : r.start <= now

\* C4 witness: two responses were finalized, one with a success and one
\* with an error status, and no request is being handled.
C4_Witness ==
  /\ reqs = {}
  /\ BagCardinality(finalized) = 2
  /\ \E x, y \in BagToSet(finalized) : x.labels[3] = 200 /\ y.labels[3] = 500

\* C5: the gauge is never overwritten with the result of an execution that
\* started before the one whose result it holds.
C5_WritesInStartOrder == [][gaugeSrc' >= gaugeSrc]_vars

\* C6: no increment is lost and no counter decreases: db_connections_total
\* is the number of requests that entered a database-backed handler, each
\* attempt series is the number of requests that entered its handler, each
\* dashboard series the number of views requested.
EnteredDb ==
  Cardinality({r \in reqs : r.route \in DbRoutes})
  + CopiesOf(finalized, {x \in BagToSet(finalized) : x.labels[2] \in DbRoutes})

Entered(route) ==
  Cardinality({r \in reqs : r.route = route})
  + CopiesOf(finalized, {x \in BagToSet(finalized) : x.labels[2] = route})

NeverDecreases(ctr, ctr2) ==
  \A k \in DOMAIN ctr : k \in DOMAIN ctr2 /\ ctr2[k] >= ctr[k]

C6_NoLostIncrement ==
  /\ [](/\ dbConnectionsTotal = EnteredDb
        /\ \A route \in DbRoutes \ {"/api/users/:userId/notifications"} :
             ValueOf(memoOperationsTotal, <<OperationOf(route), "attempt">>)
               = Entered(route)
        /\ \A t \in {"admin", "staff"} :
             ValueOf(dashboardViews, <<t>>) = Entered(DashboardPath(t)))
  /\ [][/\ dbConnectionsTotal' >= dbConnectionsTotal
        /\ NeverDecreases(memoOperationsTotal, memoOperationsTotal')
        /\ NeverDecreases(dashboardViews, dashboardViews')]_vars

\* C6 witness: two requests are inside database-backed handlers at the same
\* time, both awaiting their query, and the counter holds 2.
C6_Witness ==
  /\ Cardinality({r \in reqs : r.pc = "q1" /\ r.route \in DbRoutes}) = 2
  /\ dbConnectionsTotal = 2

\* C7: a scrape never sees a torn histogram series: in every state, and in
\* every rendered body, the +Inf bucket of a series equals its count, the
\* bucket counts do not decrease with the boundary, and the sum is the
\* sum of the observations counted; a body rendered since the last write
\* shows the series exactly as they are.
SeriesConsistent(bs, s) ==
  /\ s.inf = s.count
  /\ \A i \in 1..Len(bs) : s.counts[i] <= s.inf
  /\ \A i, j \in 1..Len(bs) : i < j => s.counts[i] <= s.counts[j]

HistBlock(body) == body[CHOOSE i \in 1..Len(body) : body[i].kind = "histogram"]

LineValue(blk, ls, suffix, le) ==
  (CHOOSE l \in blk.samples : l.labels = ls /\ l.suffix = suffix /\ l.le = le).value

\* The series a rendered histogram block shows, read back from its lines.
ShownSeries(blk, bs, ls) ==
  [counts |-> [i \in 1..Len(bs) |-> LineValue(blk, ls, "_bucket", ToString(bs[i]))],
   inf |-> LineValue(blk, ls, "_bucket", "+Inf"),
   sum |-> LineValue(blk, ls, "_sum", ""),
   count |-> LineValue(blk, ls, "_count", "")]

C7_ScrapeSeesWholeObservations ==
  /\ \A ls \in DOMAIN httpRequestDuration :
       /\ SeriesConsistent(buckets, httpRequestDuration[ls])
       /\ httpRequestDuration[ls].sum = ElapsedOf(finalized, Observed(ls))
       /\ httpRequestDuration[ls].inf = CopiesOf(finalized, Observed(ls))
  /\ \A r \in Rendered :
       LET blk == HistBlock(r.body)
       IN /\ \A ls \in {l.labels : l \in blk.samples} :
               SeriesConsistent(buckets, ShownSeries(blk, buckets, ls))
          /\ r.fresh =>
               \A ls \in DOMAIN httpRequestDuration :
                 ShownSeries(blk, buckets, ls) = httpRequestDuration[ls]

\* C7 witness: a body rendered since the last write shows a series that
\* holds the observation of a response finalized before the scrape.
C7_Witness ==
  \E r \in Rendered :
    /\ r.fresh
    /\ \E ls \in DOMAIN httpRequestDuration :
         /\ httpRequestDuration[ls].count = 1
         /\ ShownSeries(HistBlock(r.body), buckets, ls).count = 1

\* C8: after any observations, each bucket of a series counts the observed
\* values <= its boundary, +Inf and count are the number of observations and
\* sum is their sum.
C8_ObserveSemantics ==
  /\ \A x \in BagToSet(finalized) : x.labels \in DOMAIN httpRequestDuration
  /\ \A ls \in DOMAIN httpRequestDuration :
       LET s == httpRequestDuration[ls]
       IN /\ \A i \in 1..Len(buckets) :
               s.counts[i] =
                 CopiesOf(finalized, {x \in Observed(ls) : x.elapsed <= buckets[i]})
          /\ s.inf = CopiesOf(finalized, Observed(ls))
          /\ s.count = CopiesOf(finalized, Observed(ls))
          /\ s.sum = ElapsedOf(finalized, Observed(ls))

\* C8 witness: boundaries [1, 5, 10] s and the values [0.5, 3, 7, 20] s give
\* le=1: 1, le=5: 2, le=10: 3, le=+Inf: 4, sum 30.5 s, count 4.
C8_Witness ==
  LET ls == <<"GET", "/health", 200>>
  IN /\ buckets = SpecBuckets
     /\ finalized = SetToBag({[labels |-> ls, elapsed |-> e, path |-> "/health"]
                                : e \in {500, 3000, 7000, 20000}})
     /\ httpRequestDuration[ls] =
          [counts |-> <<1, 2, 3>>, inf |-> 4, sum |-> 30500, count |-> 4]

\* C9 as stated: every rendered body lists the descriptors in registration
\* order, and two bodies rendered with no write between them are identical.
RegIndex(n) == CHOOSE k \in 1..Len(registry) : registry[k].name = n

InRegistrationOrder(body) ==
  /\ Len(body) = Len(registry)
  /\ \A i, j \in 1..Len(body) : i < j => RegIndex(body[i].name) < RegIndex(body[j].name)

IsApplicationBlock(b) == b.name # "process_cpu_user_seconds_total"

ApplicationPart(body) == SelectSeq(body, IsApplicationBlock)

StartupNames ==
  << "process_cpu_user_seconds_total", "http_request_duration_seconds",
     "db_connections_total", "memo_operations_total", "active_memos_count",
     "dashboard_views_total" >>

C10_UniqueNames ==
  /\ [](/\ Cardinality(Names(registry)) = Len(registry)
        /\ proc = "running"
        /\ Len(registry) >= Len(StartupNames)
        /\ \A i \in 1..Len(StartupNames) : registry[i].name = StartupNames[i])
  /\ [][regCalls' # regCalls =>
          IF regArg'.name \in Names(registry)
          THEN /\ regResult' = "DuplicateNameError"
               /\ registry' = registry
               /\ Metrics' = Metrics
          ELSE /\ regResult' = "none"
               /\ registry' = Append(registry, regArg')]_vars

\* C10 witness: a register call with a taken name has just failed, after a
\* counter had been incremented.
C10_Witness ==
  /\ regResult = "DuplicateNameError"
  /\ regArg.name = "db_connections_total"
  /\ dbConnectionsTotal > 0

\* C11: the route label of an observation is the pattern of the route the
\* request matched, and the raw path when it matched none; two requests that
\* match the same pattern with the same method and status are observed in
\* the same series, and no series is labelled with the raw path of a
\* request that matched a route with parameters.
Endpoint(x) == [method |-> x.labels[1], path |-> x.path]

C11_RouteLabel ==
  /\ \A x \in BagToSet(finalized) :
       /\ x.labels[2] = IF RouteOf(Endpoint(x)) # "" THEN RouteOf(Endpoint(x)) ELSE x.path
       /\ x.labels \in DOMAIN httpRequestDuration
  /\ \A x, y \in BagToSet(finalized) :
       (/\ RouteOf(Endpoint(x)) # ""
        /\ RouteOf(Endpoint(x)) = RouteOf(Endpoint(y))
        /\ x.labels[1] = y.labels[1]
        /\ x.labels[3] = y.labels[3]) => x.labels = y.labels
  /\ \A ls \in DOMAIN httpRequestDuration :
       /\ ls[2] \notin {"/api/users/1/assignments", "/api/users/2/assignments",
                        "/api/assignments/1/accept", "/api/assignments/9/accept",
                        "/api/users/1/notifications"}
       /\ httpRequestDuration[ls].count = CopiesOf(finalized, Observed(ls))

\* C11 witness: the responses to /api/users/1/assignments and
\* /api/users/2/assignments, both 200, were observed in one series.
C11_Witness ==
  /\ \E x, y \in BagToSet(finalized) :
       /\ x.path = "/api/users/1/assignments"
       /\ y.path = "/api/users/2/assignments"
       /\ x.labels[3] = 200 /\ y.labels[3] = 200
  /\ <<"GET", "/api/users/:userId/assignments", 200>> \in DOMAIN httpRequestDuration
  /\ httpRequestDuration[<<"GET", "/api/users/:userId/assignments", 200>>].count = 2

\* C12: the server listens, and the 30-second timer is installed, only once
\* a database connection test has succeeded: in no state does the server
\* accept requests while initializeDatabase has not yet succeeded.
C12_ListensAfterDbReady == (listening \/ timerInstalled) => dbInit = "ready"

\* C13: a failed connection attempt schedules exactly one retry and a
\* successful one none, so that one attempt is running or pending until one
\* succeeds and none afterwards; a connection failure never ends the
\* process; the successful attempt starts exactly one gauge refresh, a
\* failed one and the retry timer none; and if from some point on no attempt
\* fails, an attempt eventually succeeds.
AttemptsPending == (IF dbInit = "connecting" THEN 1 ELSE 0) + retryTimers

AttemptFails == dbInit = "connecting" /\ dbInit' = "retryWait"

AttemptSucceeds == dbInit = "connecting" /\ dbInit' = "ready"

C13_ConnectRetry ==
  /\ [](/\ AttemptsPending = IF dbInit = "ready" THEN 0 ELSE 1
        /\ proc = "running")
  /\ [][/\ AttemptFails =>
             /\ retryTimers' = retryTimers + 1
             /\ nextSeq' = nextSeq
             /\ proc' = "running"
        /\ AttemptSucceeds =>
             /\ retryTimers' = retryTimers
             /\ nextSeq' = nextSeq + 1
             /\ inflight' = inflight \cup {nextSeq + 1}
        /\ (dbInit = "retryWait" /\ dbInit' # dbInit) =>
             /\ dbInit' = "connecting"
             /\ retryTimers' = retryTimers - 1
             /\ nextSeq' = nextSeq
        /\ dbInit = "ready" => dbInit' = "ready"]_vars
  /\ (<>[][~AttemptFails]_vars) => <>(dbInit = "ready")

\* C13 witness: the first attempt failed, its retry timer has fired, and the
\* second attempt is running with no other retry pending.
C13_Witness ==
  /\ dbInit = "connecting"
  /\ thenRan
  /\ retryTimers = 0
  /\ proc = "running"

\* C14: for each instrumented operation the attempt series is at least the
\* sum of its outcome series (success, error, and not_found for
\* accept_memo), the difference is the number of its requests still in
\* flight, and each completed request has incremented exactly one outcome
\* series, the one of its response: success for 200, not_found for 404,
\* error for 500.
OperationRoutes == DbRoutes \ {"/api/users/:userId/notifications"}

InFlightOf(route) == Cardinality({r \in reqs : r.route = route /\ r.pc # "sent"})

CompletedOf(route, st) ==
  Cardinality({r \in reqs : r.route = route /\ r.pc = "sent" /\ r.status = st})
  + CopiesOf(finalized,
             {x \in BagToSet(finalized) : x.labels[2] = route /\ x.labels[3] = st})

OpValue(route, status) == ValueOf(memoOperationsTotal, <<OperationOf(route), status>>)

OutcomesOf(route) ==
  OpValue(route, "success") + OpValue(route, "error") + OpValue(route, "not_found")

C14_OutcomeAccounting ==
  /\ \A ls \in DOMAIN memoOperationsTotal :
       /\ ls[1] \in {OperationOf(route) : route \in OperationRoutes}
       /\ ls[2] \in {"attempt", "success", "error", "not_found"}
  /\ \A route \in OperationRoutes :
       /\ OpValue(route, "attempt") >= OutcomesOf(route)
       /\ OpValue(route, "attempt") - OutcomesOf(route) = InFlightOf(route)
       /\ OpValue(route, "success") = CompletedOf(route, 200)
       /\ OpValue(route, "error") = CompletedOf(route, 500)
       /\ OpValue(route, "not_found") = CompletedOf(route, 404)
       /\ OperationOf(route) # "accept_memo" => OpValue(route, "not_found") = 0

\* C14 witness: of two accept requests one was answered 404 and finalized
\* and the other still awaits the database: attempt 2, not_found 1.
C14_Witness ==
  LET route == "/api/assignments/:assignmentId/accept"
  IN /\ OpValue(route, "attempt") = 2
     /\ OpValue(route, "not_found") = 1
     /\ InFlightOf(route) = 1
     /\ \E x \in BagToSet(finalized) : x.labels[2] = route /\ x.labels[3] = 404

\* C15: a PUT /api/assignments/:id/accept request is answered once: 200
\* when a row has that id (the row is then accepted whatever it was before,
\* and no other row changes), 404 when no row has it (no row changes), 500
\* when the database call fails; the handler starts a gauge refresh in the
\* 200 case only, in the step whose outcome has the response sent, and the
\* table changes in no other step.
AcceptRoute == "/api/assignments/:assignmentId/accept"

Answered(r) ==
  /\ r.route = AcceptRoute
  /\ r.pc = "q1"
  /\ \E r2 \in reqs' : r2.id = r.id /\ r2.pc = "sent"

After(r) == CHOOSE r2 \in reqs' : r2.id = r.id

RefreshStarted == nextSeq' = nextSeq + 1 /\ inflight' = inflight \cup {nextSeq + 1}

NoRefreshStarted == nextSeq' = nextSeq /\ inflight' = inflight

C15_AcceptOutcomes ==
  [][/\ \A r \in reqs :
          Answered(r) =>
            /\ After(r).status \in {200, 404, 500}
            /\ After(r).status = 200 =>
                 /\ AssignmentIdOf(r) \in DOMAIN memoAssignments
                 /\ memoAssignments' =
                      [memoAssignments EXCEPT ![AssignmentIdOf(r)] = "accepted"]
                 /\ RefreshStarted
            /\ After(r).status = 404 =>
                 /\ AssignmentIdOf(r) \notin DOMAIN memoAssignments
                 /\ memoAssignments' = memoAssignments
                 /\ NoRefreshStarted
            /\ After(r).status = 500 => NoRefreshStarted
     /\ \A r \in reqs :
          r.pc = "sent" =>
            \A r2 \in reqs' : r2.id = r.id => r2.pc = "sent" /\ r2.status = r.status
     /\ nReq' # nReq => NoRefreshStarted
     /\ memoAssignments' # memoAssignments => \E r \in reqs : Answered(r)
     /\ DOMAIN memoAssignments' = DOMAIN memoAssignments]_vars

\* C15 witness: the accept of assignment 1 was answered 200 and the accept
\* of assignment 9, which no row has, 404; row 1 is accepted, the other
\* rows are as seeded, and the refresh the first one started is in flight.
C15_Witness ==
  /\ \E r1, r2 \in reqs :
       /\ r1.path = "/api/assignments/1/accept" /\ r1.pc = "sent" /\ r1.status = 200
       /\ r2.path = "/api/assignments/9/accept" /\ r2.pc = "sent" /\ r2.status = 404
  /\ memoAssignments = [SeededAssignments EXCEPT ![1] = "accepted"]
  /\ inflight # {}

====
